---- MODULE Spec2Model ----
(***************************************************************************)
(* A model of src/engine.py: the musical clock, the LiveLoop state machine, *)
(* the loop registry LOOPS, the hot reloader (load_user_code, run by the    *)
(* daemon thread watch_thread) and the shutdown block of the main thread.   *)
(*                                                                          *)
(* Three activities touch the shared state: the watcher thread, the main    *)
(* thread (KeyboardInterrupt handler) and the audio server's dispatch       *)
(* context, which calls LiveLoop._tick for every playing Pattern.  Python   *)
(* runs them interleaved and the code takes no lock, so a thread can be     *)
(* preempted between any two statements: start() is two steps (the guard    *)
(* and the flag of lines 45-46, then the Pattern of lines 47-48), stop() is *)
(* two steps (line 50, then lines 51-54), each iteration of stop_all() and  *)
(* start_all() is a step, and so is each statement of load_user_code().     *)
(* The body of user_code.py touches only period_beats, func and the keys of *)
(* LOOPS, which no other thread writes, and is one step.                    *)
(*                                                                          *)
(* Spec     is the program as engine.py runs it.                            *)
(* SpecApi  is one sequential caller of the same statements (start(),       *)
(*          stop() and load_user_code() in any order), for the contracts    *)
(*          of the methods themselves.                                      *)
(* SpecDef  is one sequential caller of live_loop(), clock.set_bpm(),       *)
(*          start() and stop(), for the contracts of the definitions and    *)
(*          of the tempo.                                                   *)
(*                                                                          *)
(* Floats are modelled as exact rationals <<n, d>> in lowest terms, d > 0.  *)
(***************************************************************************)
EXTENDS Integers, Sequences, FiniteSets, TLC

(* ------------------------------ bounds --------------------------------- *)

\* the file's modification time takes the values 1..MaxMtime
MaxMtime == 2
\* a user_code.py module body holds at most MaxDefs @live_loop definitions
MaxDefs == 2
\* at most MaxTicks tick invocations are followed
MaxTicks == 2
\* Pattern.stop() raises at most MaxCancelFail times
MaxCancelFail == 1
\* the sequential caller issues no start call once MaxPats Patterns exist
MaxPats == 3
\* the sequential caller issues at most MaxCalls calls of set_bpm and of
\* live_loop
MaxCalls == 3

(* ------------------------------ values --------------------------------- *)

Names == {"A", "B"}

\* user callbacks: cbOk returns, cbBad raises on every invocation
Callbacks == {"cbOk", "cbBad"}

\* A period specification passed to live_loop is a number (kind "num": p)
\* or a text (kind "str": "p/q" when ok, unparsable otherwise).

\* the @live_loop definitions a user module can hold: each name in two
\* versions that differ in period and in callback
Versions ==
    { [spec |-> [kind |-> "num", p |-> 2, q |-> 1, ok |-> TRUE], fn |-> "cbOk"],
      [spec |-> [kind |-> "str", p |-> 1, q |-> 4, ok |-> TRUE], fn |-> "cbBad"] }

Defs == {[name |-> n, spec |-> v.spec, fn |-> v.fn] : n \in Names, v \in Versions}

\* the module bodies: sequences of at most MaxDefs definitions
Bodies == UNION {[1..n -> Defs] : n \in 0..MaxDefs}

\* period specifications that are not positive or not a ratio: 0, -1,
\* "0/3", "-1/4", "1/0" and an unparsable text
BadSpecs ==
    { [kind |-> "num", p |-> 0, q |-> 1, ok |-> TRUE],
      [kind |-> "num", p |-> -1, q |-> 1, ok |-> TRUE],
      [kind |-> "str", p |-> 0, q |-> 3, ok |-> TRUE],
      [kind |-> "str", p |-> -1, q |-> 4, ok |-> TRUE],
      [kind |-> "str", p |-> 1, q |-> 0, ok |-> TRUE],
      [kind |-> "str", p |-> 0, q |-> 1, ok |-> FALSE] }

\* the definitions a caller of live_loop can pass
DefInputs ==
    Defs \cup {[name |-> "A", spec |-> b, fn |-> "cbOk"] : b \in BadSpecs}

\* the arguments of set_bpm
BpmArgs == {-60, 0, 60}

Threads == {"watch", "main", "api"}

None == 0

NoDef == [name |-> "None"]

(* ----------------------------- rationals ------------------------------- *)

Abs(x) == IF x < 0 THEN -x ELSE x

RECURSIVE Gcd(_, _)
Gcd(a, b) == IF b = 0 THEN a ELSE Gcd(b, a % b)

\* the rational n/d (d # 0) in lowest terms with a positive denominator
Rat(n, d) ==
    LET g == Gcd(Abs(n), Abs(d))
        s == IF d < 0 THEN -1 ELSE 1
    IN  <<(s * n) \div g, (s * d) \div g>>

RMul(x, y) == Rat(x[1] * y[1], x[2] * y[2])

(* ------------------------------- state --------------------------------- *)

VARIABLES
    clock,        \* Clock: [bpm, sec_per_beat]
    LOOPS,        \* the dict LOOPS in insertion order: Seq of [name, ref]
    heap,         \* the LiveLoop objects ever constructed; ref = index
    pats,         \* the Pattern objects ever constructed; handle = index;
                  \*   Freed once stopped and no longer referenced
    inflight,     \* refs of loops with a firing dispatched, _tick not yet run
    server,       \* the pyo Server: "started" or "shutdown"
    file,         \* USER_FILE: [exists, mtime]
    last_mtime,   \* _last_mtime (None = 0)
    user_mod,     \* _user_mod is set
    sys_modules,  \* "user_code" in sys.modules
    pc,           \* per thread: the statement it executes next
    stack,        \* per thread: return labels of the calls in progress
    self,         \* per thread: the LiveLoop of the start()/stop() in progress
    it,           \* per thread: position of the dict iterator of *_all()
    itlen,        \* per thread: size of LOOPS when the iterator was made
    defs,         \* per thread: name -> the definition the import in progress
                  \*   executed for it (the last one), or NoDef
    snap,         \* per thread: [on: a reload is in progress, runs: the values
                  \*   of is_running it found among the registered loops]
    result,       \* outcome of the latest reload: "none", "loading", "loaded",
                  \*   "failed"
    halted,       \* names whose stop() has returned and start() not called since
    starts,       \* per name: number of Idle -> Running transitions
    made,         \* per name: number of Patterns constructed by its start()
    calls,        \* per name: number of invocations of the user callback
    raised,       \* per name: number of invocations in which the callback raised
    errlog,       \* per name: number of "[name] error" lines on stderr
    load_errors,  \* number of "[engine] load error" lines on stderr
    leaked,       \* handles whose Pattern.stop() raised
    ncalls,       \* number of set_bpm and live_loop calls of the sequential caller
    bpm_arg,      \* the argument of the set_bpm call in progress (0 when none)
    started       \* per name: [beats, spb], the period_beats and the
                  \*   clock.sec_per_beat read by the start() that built the
                  \*   loop's present Pattern, or NoStart

vars == <<clock, LOOPS, heap, pats, inflight, server, file, last_mtime,
          user_mod, sys_modules, pc, stack, self, it, itlen, defs, snap,
          result, halted, starts, made, calls, raised, errlog,
          load_errors, leaked, bpm_arg, ncalls, started>>

(* --------------------------- pure functions ---------------------------- *)

\* every(spec): a number is returned as a float; any other value goes
\* through Fraction(spec), which raises ValueError on unparsable text and
\* ZeroDivisionError on a zero denominator.  No sign check is made.
every(spec) ==
    IF spec.kind = "num" THEN [ok |-> TRUE, val |-> Rat(spec.p, 1)]
    ELSE IF ~spec.ok \/ spec.q = 0 THEN [ok |-> FALSE, val |-> <<0, 1>>]
    ELSE [ok |-> TRUE, val |-> Rat(spec.p, spec.q)]

\* mutant of LiveLoop: a new loop is constructed with is_running set
LiveLoopStarted(name, every_beats) ==
    [name |-> name, period_beats |-> every_beats, is_running |-> TRUE,
     pat |-> None, func |-> "None"]

\* LiveLoop.__init__
LiveLoop(name, every_beats) ==
    [name |-> name, period_beats |-> every_beats, is_running |-> FALSE,
     pat |-> None, func |-> "None"]

\* Clock.set_bpm on a fresh Clock, as Clock.__init__ calls it
ClockInit(bpm) == [bpm |-> bpm, sec_per_beat |-> Rat(60, bpm)]

(* ----------------------------- the registry ---------------------------- *)

\* a registry value: the dict L and the objects H it refers to
KeysOf(L) == {L[i].name : i \in DOMAIN L}

PosIn(L, name) == CHOOSE i \in DOMAIN L : L[i].name = name

\* L.get(name)
GetIn(L, name) == IF name \in KeysOf(L) THEN L[PosIn(L, name)].ref ELSE None

\* mutant of LoopFor: live_loop constructs a LiveLoop on every call
LoopForFresh(L, H, name) == Len(H) + 1

\* LOOPS.get(name) or LiveLoop(name, beats): the existing object, else a new one
LoopFor(L, H, name) ==
    IF GetIn(L, name) # None THEN GetIn(L, name) ELSE Len(H) + 1

\* mutant of SetItem: an existing key is removed and inserted again at the end
SetItemMove(L, name, ref) ==
    Append(SelectSeq(L, LAMBDA e : e.name # name), [name |-> name, ref |-> ref])

\* L[name] = loop: an existing key keeps its position
SetItem(L, name, ref) ==
    IF name \in KeysOf(L) THEN [L EXCEPT ![PosIn(L, name)].ref = ref]
    ELSE Append(L, [name |-> name, ref |-> ref])

\* "@live_loop(name, every_beats)" over "def fn": lines 62-70.
\* A failing every() raises before anything is written.
live_loop(reg, d) ==
    LET e == every(d.spec)
        ref == LoopFor(reg.L, reg.H, d.name)
        objs == IF ref > Len(reg.H)
                THEN Append(reg.H, LiveLoop(d.name, e.val)) ELSE reg.H
    IN  IF ~e.ok THEN [reg EXCEPT !.ok = FALSE]
        ELSE [L |-> SetItem(reg.L, d.name, ref),
              H |-> [objs EXCEPT ![ref].period_beats = e.val,
                                 ![ref].func = d.fn],
              ok |-> TRUE,
              seen |-> [reg.seen EXCEPT ![d.name] = d]]

\* the statements of a module body in order, up to the first that raises
RECURSIVE ExecBody(_, _)
ExecBody(reg, body) ==
    IF body = <<>> \/ ~reg.ok THEN reg
    ELSE ExecBody(live_loop(reg, Head(body)), Tail(body))

Keys == KeysOf(LOOPS)

Get(name) == GetIn(LOOPS, name)

\* LOOPS.values()
Values == {LOOPS[i].ref : i \in DOMAIN LOOPS}

\* a Pattern object after garbage collection
Freed == [owner |-> None, time |-> <<0, 1>>, playing |-> FALSE]

\* the values of is_running found among the registered loops
RunFlags == {heap[r].is_running : r \in Values}

NoSnap == [on |-> FALSE, runs |-> {}]

NoDefs == [n \in Names |-> NoDef]

NoStart == [beats |-> <<0, 1>>, spb |-> <<0, 1>>]

(* ------------------------------ control -------------------------------- *)

\* the process runs until the main thread ends
Alive == pc["main"] \notin {"exited", "crashed"}

At(t, l) == Alive /\ pc[t] = l

Goto(t, l) == pc' = [pc EXCEPT ![t] = l] /\ UNCHANGED stack

Call(t, l, r) ==
    /\ pc' = [pc EXCEPT ![t] = l]
    /\ stack' = [stack EXCEPT ![t] = <<r>> \o @]

Return(t) ==
    /\ pc' = [pc EXCEPT ![t] = Head(stack[t])]
    /\ stack' = [stack EXCEPT ![t] = Tail(@)]

\* an exception leaves the calls in progress: load_user_code catches it,
\* the main thread's except clause handles KeyboardInterrupt only
Raise(t) ==
    /\ pc' = [pc EXCEPT ![t] = IF t = "main" THEN "crashed" ELSE "except"]
    /\ stack' = [stack EXCEPT ![t] = <<>>]

\* mutant of Home: watch_thread calls load_user_code once and ends
HomeOnce(t) == IF t = "api" THEN "idle" ELSE "done"

\* where load_user_code returns to: watch_thread sleeps and calls it again
Home(t) == IF t = "api" THEN "idle" ELSE "load"

\* the dict iterator of "for lp in LOOPS.values()" over a dict of n keys
NewIter(t, n) ==
    /\ it' = [it EXCEPT ![t] = 1]
    /\ itlen' = [itlen EXCEPT ![t] = n]

\* the iterator is dropped
EndIter(t) ==
    /\ it' = [it EXCEPT ![t] = 1]
    /\ itlen' = [itlen EXCEPT ![t] = 0]

(* ------------------------------- Init ---------------------------------- *)

InitShared ==
    /\ clock = ClockInit(130)
    /\ LOOPS = <<>>
    /\ heap = <<>>
    /\ pats = <<>>
    /\ inflight = {}
    /\ server = "started"
    /\ file \in {[exists |-> e, mtime |-> 1] : e \in BOOLEAN}
    /\ last_mtime = None
    /\ user_mod = FALSE
    /\ sys_modules = FALSE
    /\ stack = [t \in Threads |-> <<>>]
    /\ self = [t \in Threads |-> None]
    /\ it = [t \in Threads |-> 1]
    /\ itlen = [t \in Threads |-> 0]
    /\ defs = [t \in Threads |-> NoDefs]
    /\ snap = [t \in Threads |-> NoSnap]
    /\ result = "none"
    /\ halted = {}
    /\ starts = [n \in Names |-> 0]
    /\ made = [n \in Names |-> 0]
    /\ calls = [n \in Names |-> 0]
    /\ raised = [n \in Names |-> 0]
    /\ errlog = [n \in Names |-> 0]
    /\ load_errors = 0
    /\ leaked = {}
    /\ bpm_arg = 0
    /\ ncalls = 0
    /\ started = [n \in Names |-> NoStart]

\* engine.py after line 106: the watcher started, the main thread waiting
Init ==
    /\ InitShared
    /\ pc = [t \in Threads |-> IF t = "watch" THEN "load"
                               ELSE IF t = "main" THEN "wait" ELSE "off"]

\* one sequential caller, no watcher and no shutdown driver
InitApi ==
    /\ InitShared
    /\ pc = [t \in Threads |-> IF t = "api" THEN "idle" ELSE "off"]

(* ---------------------------- Clock.set_bpm ---------------------------- *)

\* line 17: self.bpm = float(bpm)
SetBpmWrite(t) ==
    /\ At(t, "set_bpm")
    /\ clock' = [clock EXCEPT !.bpm = bpm_arg]
    /\ Goto(t, "set_bpm_div")
    /\ UNCHANGED <<LOOPS, heap, pats, inflight, server, file, last_mtime,
                   user_mod, sys_modules, self, it, itlen, defs, snap,
                   result, halted, starts, made, calls, raised, errlog,
                   load_errors, leaked, bpm_arg, ncalls, started>>

\* mutant of SetBpmDerive: the triggers of the running loops are re-timed
SetBpmDeriveRetime(t) ==
    /\ At(t, "set_bpm_div")
    /\ clock' = IF clock.bpm = 0 THEN clock
                ELSE [clock EXCEPT !.sec_per_beat = Rat(60, clock.bpm)]
    /\ pats' = [h \in DOMAIN pats |->
                  IF pats[h].playing
                  THEN [pats[h] EXCEPT !.time =
                          RMul(heap[pats[h].owner].period_beats,
                               clock'.sec_per_beat)]
                  ELSE pats[h]]
    /\ bpm_arg' = 0
    /\ Return(t)
    /\ UNCHANGED <<LOOPS, heap, inflight, server, file, last_mtime,
                   user_mod, sys_modules, self, it, itlen, defs, snap,
                   result, halted, starts, made, calls, raised, errlog,
                   load_errors, leaked, ncalls, started>>

\* line 18: self.sec_per_beat = 60.0 / self.bpm
\* The division raises ZeroDivisionError when bpm is 0.0; the exception
\* leaves set_bpm with line 17 done and reaches the caller.
SetBpmDerive(t) ==
    /\ At(t, "set_bpm_div")
    /\ clock' = IF clock.bpm = 0 THEN clock
                ELSE [clock EXCEPT !.sec_per_beat = Rat(60, clock.bpm)]
    /\ bpm_arg' = 0
    /\ Return(t)
    /\ UNCHANGED <<LOOPS, heap, pats, inflight, server, file, last_mtime,
                   user_mod, sys_modules, self, it, itlen, defs, snap,
                   result, halted, starts, made, calls, raised, errlog,
                   load_errors, leaked, ncalls, started>>

(* --------------------------- LiveLoop.start ---------------------------- *)

\* mutant of StartEnter: the guard of line 45 is missing
StartEnterAlways(t) ==
    /\ At(t, "start")
    /\ halted' = halted \ {heap[self[t]].name}
    /\ heap' = [heap EXCEPT ![self[t]].is_running = TRUE]
    /\ starts' = [starts EXCEPT ![heap[self[t]].name] =
                     IF heap[self[t]].is_running THEN @ ELSE @ + 1]
    /\ Goto(t, "start_play")
    /\ UNCHANGED <<clock, LOOPS, pats, inflight, server, file, last_mtime,
                   user_mod, sys_modules, self, it, itlen, defs, snap,
                   result, made, calls, raised, errlog, load_errors,
                   leaked, bpm_arg, ncalls, started>>

\* lines 45-46: if self.is_running: return
\*              self.is_running = True
StartEnter(t) ==
    /\ At(t, "start")
    /\ halted' = halted \ {heap[self[t]].name}
    /\ IF heap[self[t]].is_running
       THEN /\ Return(t)
            /\ self' = [self EXCEPT ![t] = None]
            /\ UNCHANGED <<heap, starts>>
       ELSE /\ heap' = [heap EXCEPT ![self[t]].is_running = TRUE]
            /\ starts' = [starts EXCEPT ![heap[self[t]].name] = @ + 1]
            /\ Goto(t, "start_play")
            /\ UNCHANGED self
    /\ UNCHANGED <<clock, LOOPS, pats, inflight, server, file, last_mtime,
                   user_mod, sys_modules, it, itlen, defs, snap, result,
                   made, calls, raised, errlog, load_errors, leaked,
                   bpm_arg, ncalls, started>>

\* lines 47-48: period_sec = float(self.period_beats) * clock.sec_per_beat
\*              self._pat = Pattern(self._tick, time=period_sec).play()
StartPlay(t) ==
    /\ At(t, "start_play")
    /\ pats' = Append(pats, [owner |-> self[t],
                             time |-> RMul(heap[self[t]].period_beats,
                                           clock.sec_per_beat),
                             playing |-> TRUE])
    /\ heap' = [heap EXCEPT ![self[t]].pat = Len(pats) + 1]
    /\ made' = [made EXCEPT ![heap[self[t]].name] = @ + 1]
    /\ started' = [started EXCEPT ![heap[self[t]].name] =
                      [beats |-> heap[self[t]].period_beats,
                       spb |-> clock.sec_per_beat]]
    /\ self' = [self EXCEPT ![t] = None]
    /\ Return(t)
    /\ UNCHANGED <<clock, LOOPS, inflight, server, file, last_mtime,
                   user_mod, sys_modules, it, itlen, defs, snap, result,
                   halted, starts, calls, raised, errlog, load_errors,
                   leaked, bpm_arg, ncalls>>

(* ---------------------------- LiveLoop.stop ---------------------------- *)

\* mutant of StopClear: line 50 is missing
StopClearKeep(t) ==
    /\ At(t, "stop")
    /\ Goto(t, "stop_if")
    /\ UNCHANGED <<clock, LOOPS, heap, pats, inflight, server, file,
                   last_mtime, user_mod, sys_modules, self, it, itlen,
                   defs, snap, result, halted, starts, made, calls, raised,
                   errlog, load_errors, leaked, bpm_arg, ncalls, started>>

\* line 50: self.is_running = False
StopClear(t) ==
    /\ At(t, "stop")
    /\ heap' = [heap EXCEPT ![self[t]].is_running = FALSE]
    /\ Goto(t, "stop_if")
    /\ UNCHANGED <<clock, LOOPS, pats, inflight, server, file, last_mtime,
                   user_mod, sys_modules, self, it, itlen, defs, snap,
                   result, halted, starts, made, calls, raised, errlog,
                   load_errors, leaked, bpm_arg, ncalls, started>>

\* mutant of StopRelease: line 54 is missing
StopReleaseKeep(t) ==
    /\ At(t, "stop_if")
    /\ LET h == heap[self[t]].pat IN
         IF h = None THEN UNCHANGED <<pats, leaked>>
         ELSE \/ /\ pats' = [pats EXCEPT ![h].playing = FALSE]
                 /\ UNCHANGED leaked
              \/ /\ Cardinality(leaked) < MaxCancelFail
                 /\ pats[h].playing
                 /\ leaked' = leaked \cup {h}
                 /\ UNCHANGED pats
    /\ halted' = halted \cup {heap[self[t]].name}
    /\ self' = [self EXCEPT ![t] = None]
    /\ Return(t)
    /\ UNCHANGED <<clock, LOOPS, heap, inflight, server, file, last_mtime,
                   user_mod, sys_modules, it, itlen, defs, snap, result,
                   starts, made, calls, raised, errlog, load_errors,
                   bpm_arg, ncalls, started>>

\* lines 51-54: if self._pat:
\*                  try: self._pat.stop()
\*                  except Exception: pass
\*                  self._pat = None
\* Pattern.stop() either cancels the trigger or raises and leaves it
\* playing; the exception is swallowed.  The loop held the only reference
\* to its Pattern: a stopped Pattern is collected, a playing one stays with
\* the audio server.
StopRelease(t) ==
    /\ At(t, "stop_if")
    /\ LET h == heap[self[t]].pat IN
         IF h = None THEN UNCHANGED <<pats, leaked, heap>>
         ELSE /\ heap' = [heap EXCEPT ![self[t]].pat = None]
              /\ \/ /\ pats' = [pats EXCEPT ![h] = Freed]
                    /\ UNCHANGED leaked
                 \/ /\ Cardinality(leaked) < MaxCancelFail
                    /\ pats[h].playing
                    /\ leaked' = leaked \cup {h}
                    /\ UNCHANGED pats
    /\ halted' = halted \cup {heap[self[t]].name}
    /\ started' = [started EXCEPT ![heap[self[t]].name] = NoStart]
    /\ self' = [self EXCEPT ![t] = None]
    /\ Return(t)
    /\ UNCHANGED <<clock, LOOPS, inflight, server, file, last_mtime,
                   user_mod, sys_modules, it, itlen, defs, snap, result,
                   starts, made, calls, raised, errlog, load_errors,
                   bpm_arg, ncalls>>

(* ---------------------------- LiveLoop._tick --------------------------- *)

RECURSIVE Total(_, _)
Total(f, S) == IF S = {} THEN 0
               ELSE LET n == CHOOSE x \in S : TRUE IN f[n] + Total(f, S \ {n})

\* the tick invocations followed so far
TicksUsed == Total(calls, Names) + Cardinality(inflight)

\* the audio server's dispatch context fires a playing Pattern: an
\* invocation of the owner's _tick is under way
Fire(h) ==
    /\ Alive
    /\ server = "started"
    /\ pats[h].playing
    /\ pats[h].owner \notin inflight
    /\ TicksUsed < MaxTicks
    /\ inflight' = inflight \cup {pats[h].owner}
    /\ UNCHANGED <<clock, LOOPS, heap, pats, server, file, last_mtime,
                   user_mod, sys_modules, pc, stack, self, it, itlen, defs,
                   snap, result, halted, starts, made, calls, raised,
                   errlog, load_errors, leaked, bpm_arg, ncalls, started>>

\* mutant of Tick: the except clause of line 43 prints nothing
TickSilent(r) ==
    /\ Alive
    /\ r \in inflight
    /\ inflight' = inflight \ {r}
    /\ IF heap[r].func = "None" THEN UNCHANGED <<calls, raised>>
       ELSE /\ calls' = [calls EXCEPT ![heap[r].name] = @ + 1]
            /\ raised' = IF heap[r].func = "cbBad"
                         THEN [raised EXCEPT ![heap[r].name] = @ + 1]
                         ELSE raised
    /\ UNCHANGED <<clock, LOOPS, heap, pats, server, file, last_mtime,
                   user_mod, sys_modules, pc, stack, self, it, itlen, defs,
                   snap, result, halted, starts, made, errlog, load_errors,
                   leaked, bpm_arg, ncalls, started>>

\* lines 39-43: try: if self.func: self.func()
\*              except Exception as e: print(f"[{self.name}] error: {e}")
\* is_running is not read.
Tick(r) ==
    /\ Alive
    /\ r \in inflight
    /\ inflight' = inflight \ {r}
    /\ IF heap[r].func = "None" THEN UNCHANGED <<calls, raised, errlog>>
       ELSE /\ calls' = [calls EXCEPT ![heap[r].name] = @ + 1]
            /\ IF heap[r].func = "cbBad"
               THEN /\ raised' = [raised EXCEPT ![heap[r].name] = @ + 1]
                    /\ errlog' = [errlog EXCEPT ![heap[r].name] = @ + 1]
               ELSE UNCHANGED <<raised, errlog>>
    /\ UNCHANGED <<clock, LOOPS, heap, pats, server, file, last_mtime,
                   user_mod, sys_modules, pc, stack, self, it, itlen, defs,
                   snap, result, halted, starts, made, load_errors, leaked,
                   bpm_arg, ncalls, started>>

(* ------------------------- start_all / stop_all ------------------------ *)

\* line 76: for lp in LOOPS.values(): lp.stop()
\* The iterator raises RuntimeError when the dict changed size under it.
StopAllNext(t) ==
    /\ At(t, "stop_all")
    /\ IF Len(LOOPS) # itlen[t]
       THEN Raise(t) /\ EndIter(t) /\ UNCHANGED self
       ELSE IF it[t] > Len(LOOPS)
       THEN Return(t) /\ EndIter(t) /\ UNCHANGED self
       ELSE /\ self' = [self EXCEPT ![t] = LOOPS[it[t]].ref]
            /\ it' = [it EXCEPT ![t] = @ + 1]
            /\ Call(t, "stop", "stop_all")
            /\ UNCHANGED itlen
    /\ UNCHANGED <<clock, LOOPS, heap, pats, inflight, server, file,
                   last_mtime, user_mod, sys_modules, defs, snap, result,
                   halted, starts, made, calls, raised, errlog,
                   load_errors, leaked, bpm_arg, ncalls, started>>

\* line 73: for lp in LOOPS.values(): lp.start()
StartAllNext(t) ==
    /\ At(t, "start_all")
    /\ IF Len(LOOPS) # itlen[t]
       THEN Raise(t) /\ EndIter(t) /\ UNCHANGED self
       ELSE IF it[t] > Len(LOOPS)
       THEN Return(t) /\ EndIter(t) /\ UNCHANGED self
       ELSE /\ self' = [self EXCEPT ![t] = LOOPS[it[t]].ref]
            /\ it' = [it EXCEPT ![t] = @ + 1]
            /\ Call(t, "start", "start_all")
            /\ UNCHANGED itlen
    /\ UNCHANGED <<clock, LOOPS, heap, pats, inflight, server, file,
                   last_mtime, user_mod, sys_modules, defs, snap, result,
                   halted, starts, made, calls, raised, errlog,
                   load_errors, leaked, bpm_arg, ncalls, started>>

(* --------------------------- load_user_code ---------------------------- *)

\* mutant of LoadCheck: a marker equal to the recorded one starts a reload
LoadCheckRetry(t) ==
    /\ At(t, "load")
    /\ IF ~file.exists
       THEN Goto(t, Home(t)) /\ UNCHANGED <<last_mtime, it, itlen, snap, result>>
       ELSE IF last_mtime = None \/ file.mtime >= last_mtime
       THEN /\ last_mtime' = file.mtime
            /\ snap' = [snap EXCEPT ![t] = [on |-> TRUE, runs |-> RunFlags]]
            /\ result' = "loading"
            /\ NewIter(t, Len(LOOPS))
            /\ Call(t, "stop_all", "import")
       ELSE /\ Goto(t, Home(t))
            /\ UNCHANGED <<last_mtime, it, itlen, snap, result>>
    /\ UNCHANGED <<clock, LOOPS, heap, pats, inflight, server, file,
                   user_mod, sys_modules, self, defs, halted, starts, made,
                   calls, raised, errlog, load_errors, leaked, bpm_arg,
                   ncalls, started>>

\* mutant of LoadCheck: a missing file is an error
LoadCheckStrict(t) ==
    /\ At(t, "load")
    /\ IF ~file.exists
       THEN Raise(t) /\ UNCHANGED <<last_mtime, it, itlen, snap, result>>
       ELSE IF last_mtime = None \/ file.mtime > last_mtime
       THEN /\ last_mtime' = file.mtime
            /\ snap' = [snap EXCEPT ![t] = [on |-> TRUE, runs |-> RunFlags]]
            /\ result' = "loading"
            /\ NewIter(t, Len(LOOPS))
            /\ Call(t, "stop_all", "import")
       ELSE /\ Goto(t, Home(t))
            /\ UNCHANGED <<last_mtime, it, itlen, snap, result>>
    /\ UNCHANGED <<clock, LOOPS, heap, pats, inflight, server, file,
                   user_mod, sys_modules, self, defs, halted, starts, made,
                   calls, raised, errlog, load_errors, leaked, bpm_arg,
                   ncalls, started>>

\* lines 86-90: if USER_FILE.exists():
\*                  mtime = USER_FILE.stat().st_mtime
\*                  if _last_mtime is None or mtime > _last_mtime:
\*                      _last_mtime = mtime; stop_all()
\* One probe of the file system; when nothing is to be done the call
\* returns and watch_thread sleeps.
LoadCheck(t) ==
    /\ At(t, "load")
    /\ IF ~file.exists
       THEN Goto(t, Home(t)) /\ UNCHANGED <<last_mtime, it, itlen, snap, result>>
       ELSE IF last_mtime = None \/ file.mtime > last_mtime
       THEN /\ last_mtime' = file.mtime
            /\ snap' = [snap EXCEPT ![t] = [on |-> TRUE, runs |-> RunFlags]]
            /\ result' = "loading"
            /\ NewIter(t, Len(LOOPS))
            /\ Call(t, "stop_all", "import")
       ELSE /\ Goto(t, Home(t))
            /\ UNCHANGED <<last_mtime, it, itlen, snap, result>>
    /\ UNCHANGED <<clock, LOOPS, heap, pats, inflight, server, file,
                   user_mod, sys_modules, self, defs, halted, starts, made,
                   calls, raised, errlog, load_errors, leaked, bpm_arg,
                   ncalls, started>>

\* lines 91-93: if _user_mod and "user_code" in sys.modules:
\*                  del sys.modules["user_code"]
\*              ... importlib.import_module("user_code")
\* import_module returns a module found in sys.modules without executing
\* it, raises ModuleNotFoundError when the file is gone, and otherwise
\* executes the module body: `body` up to its first failing statement, and
\* `fails` when a statement after the last definition raises (a body that
\* does not compile is the empty body failing).  A failed import leaves no
\* entry in sys.modules.
Import(t, body, fails) ==
    /\ At(t, "import")
    /\ LET cached == sys_modules /\ ~user_mod
           reg == ExecBody([L |-> LOOPS, H |-> heap, ok |-> TRUE,
                            seen |-> NoDefs], body)
       IN  IF cached
           THEN /\ Goto(t, "imported")
                /\ UNCHANGED <<sys_modules, LOOPS, heap, defs>>
           ELSE IF ~file.exists
           THEN /\ sys_modules' = FALSE
                /\ Raise(t)
                /\ UNCHANGED <<LOOPS, heap, defs>>
           ELSE /\ LOOPS' = reg.L
                /\ heap' = reg.H
                /\ defs' = [defs EXCEPT ![t] = reg.seen]
                /\ IF fails \/ ~reg.ok
                   THEN sys_modules' = FALSE /\ Raise(t)
                   ELSE sys_modules' = TRUE /\ Goto(t, "imported")
    /\ UNCHANGED <<clock, pats, inflight, server, file, last_mtime,
                   user_mod, self, it, itlen, snap, result, halted, starts,
                   made, calls, raised, errlog, load_errors, leaked,
                   bpm_arg, ncalls, started>>

\* mutant of Imported: the loops the module did not define are dropped
\* from the registry
ImportedPrune(t) ==
    /\ At(t, "imported")
    /\ user_mod' = TRUE
    /\ LOOPS' = SelectSeq(LOOPS, LAMBDA e : defs[t][e.name] # NoDef)
    /\ defs' = [defs EXCEPT ![t] = NoDefs]
    /\ NewIter(t, Len(LOOPS'))
    /\ Call(t, "start_all", "loaded")
    /\ UNCHANGED <<clock, heap, pats, inflight, server, file, last_mtime,
                   sys_modules, self, snap, result, halted, starts, made,
                   calls, raised, errlog, load_errors, leaked, bpm_arg,
                   ncalls, started>>

\* lines 93-94: _user_mod = <the module>; start_all()
Imported(t) ==
    /\ At(t, "imported")
    /\ user_mod' = TRUE
    /\ defs' = [defs EXCEPT ![t] = NoDefs]
    /\ NewIter(t, Len(LOOPS))
    /\ Call(t, "start_all", "loaded")
    /\ UNCHANGED <<clock, LOOPS, heap, pats, inflight, server, file,
                   last_mtime, sys_modules, self, snap, result, halted,
                   starts, made, calls, raised, errlog, load_errors,
                   leaked, bpm_arg, ncalls, started>>

\* line 95: print(f"[engine] loaded {USER_FILE.name}")
Loaded(t) ==
    /\ At(t, "loaded")
    /\ result' = "loaded"
    /\ snap' = [snap EXCEPT ![t] = NoSnap]
    /\ Goto(t, Home(t))
    /\ UNCHANGED <<clock, LOOPS, heap, pats, inflight, server, file,
                   last_mtime, user_mod, sys_modules, self, it, itlen,
                   defs, halted, starts, made, calls, raised, errlog,
                   load_errors, leaked, bpm_arg, ncalls, started>>

\* mutant of Except: the handler starts the loops again after logging
ExceptRestart(t) ==
    /\ At(t, "except")
    /\ load_errors' = load_errors + 1
    /\ result' = IF snap[t].on THEN "failed" ELSE result
    /\ snap' = [snap EXCEPT ![t] = NoSnap]
    /\ defs' = [defs EXCEPT ![t] = NoDefs]
    /\ NewIter(t, Len(LOOPS))
    /\ Call(t, "start_all", Home(t))
    /\ UNCHANGED <<clock, LOOPS, heap, pats, inflight, server, file,
                   last_mtime, user_mod, sys_modules, self, halted, starts,
                   made, calls, raised, errlog, leaked, bpm_arg, ncalls,
                   started>>

\* lines 96-97: except Exception as e: print(f"[engine] load error: {e}")
Except(t) ==
    /\ At(t, "except")
    /\ load_errors' = load_errors + 1
    /\ result' = IF snap[t].on THEN "failed" ELSE result
    /\ snap' = [snap EXCEPT ![t] = NoSnap]
    /\ defs' = [defs EXCEPT ![t] = NoDefs]
    /\ Goto(t, Home(t))
    /\ UNCHANGED <<clock, LOOPS, heap, pats, inflight, server, file,
                   last_mtime, user_mod, sys_modules, self, it, itlen,
                   halted, starts, made, calls, raised, errlog, leaked,
                   bpm_arg, ncalls, started>>

(* --------------------------- the main thread --------------------------- *)

\* lines 107-110: KeyboardInterrupt ends the wait; stop_all() is called
Interrupt ==
    /\ At("main", "wait")
    /\ NewIter("main", Len(LOOPS))
    /\ Call("main", "stop_all", "s_stop")
    /\ UNCHANGED <<clock, LOOPS, heap, pats, inflight, server, file,
                   last_mtime, user_mod, sys_modules, self, defs, snap,
                   result, halted, starts, made, calls, raised, errlog,
                   load_errors, leaked, bpm_arg, ncalls, started>>

\* line 111: s.stop(); s.shutdown(); the main thread ends and the process
\* exits, ending the daemon watcher thread with it
ServerShutdown ==
    /\ At("main", "s_stop")
    /\ server' = "shutdown"
    /\ Goto("main", "exited")
    /\ UNCHANGED <<clock, LOOPS, heap, pats, inflight, file, last_mtime,
                   user_mod, sys_modules, self, it, itlen, defs, snap,
                   result, halted, starts, made, calls, raised, errlog,
                   load_errors, leaked, bpm_arg, ncalls, started>>

(* --------------------------- the environment --------------------------- *)

\* the user saves user_code.py
EditFile ==
    /\ Alive
    /\ file.mtime < MaxMtime
    /\ file' = [exists |-> TRUE, mtime |-> file.mtime + 1]
    /\ UNCHANGED <<clock, LOOPS, heap, pats, inflight, server, last_mtime,
                   user_mod, sys_modules, pc, stack, self, it, itlen, defs,
                   snap, result, halted, starts, made, calls, raised,
                   errlog, load_errors, leaked, bpm_arg, ncalls, started>>

\* the user removes user_code.py
RemoveFile ==
    /\ Alive
    /\ file.exists
    /\ file' = [file EXCEPT !.exists = FALSE]
    /\ UNCHANGED <<clock, LOOPS, heap, pats, inflight, server, last_mtime,
                   user_mod, sys_modules, pc, stack, self, it, itlen, defs,
                   snap, result, halted, starts, made, calls, raised,
                   errlog, load_errors, leaked, bpm_arg, ncalls, started>>

(* ------------------------- the sequential caller ----------------------- *)

ApiLoad ==
    /\ At("api", "idle")
    /\ Goto("api", "load")
    /\ UNCHANGED <<clock, LOOPS, heap, pats, inflight, server, file,
                   last_mtime, user_mod, sys_modules, self, it, itlen,
                   defs, snap, result, halted, starts, made, calls, raised,
                   errlog, load_errors, leaked, bpm_arg, ncalls, started>>

ApiStart(r) ==
    /\ At("api", "idle")
    /\ Len(pats) < MaxPats
    /\ self' = [self EXCEPT !["api"] = r]
    /\ Call("api", "start", "idle")
    /\ UNCHANGED <<clock, LOOPS, heap, pats, inflight, server, file,
                   last_mtime, user_mod, sys_modules, it, itlen, defs,
                   snap, result, halted, starts, made, calls, raised,
                   errlog, load_errors, leaked, bpm_arg, ncalls, started>>

ApiStop(r) ==
    /\ At("api", "idle")
    /\ self' = [self EXCEPT !["api"] = r]
    /\ Call("api", "stop", "idle")
    /\ UNCHANGED <<clock, LOOPS, heap, pats, inflight, server, file,
                   last_mtime, user_mod, sys_modules, it, itlen, defs,
                   snap, result, halted, starts, made, calls, raised,
                   errlog, load_errors, leaked, bpm_arg, ncalls, started>>

\* clock.set_bpm(b)
ApiSetBpm(b) ==
    /\ At("api", "idle")
    /\ ncalls < MaxCalls
    /\ ncalls' = ncalls + 1
    /\ bpm_arg' = b
    /\ Call("api", "set_bpm", "idle")
    /\ UNCHANGED <<clock, LOOPS, heap, pats, inflight, server, file,
                   last_mtime, user_mod, sys_modules, self, it, itlen,
                   defs, snap, result, halted, starts, made, calls, raised,
                   errlog, load_errors, leaked, started>>

\* "@live_loop(d.name, d.spec)" over "def d.fn": an exception of every()
\* reaches the caller
ApiDefine(d) ==
    /\ At("api", "idle")
    /\ ncalls < MaxCalls
    /\ ncalls' = ncalls + 1
    /\ LET reg == live_loop([L |-> LOOPS, H |-> heap, ok |-> TRUE,
                             seen |-> NoDefs], d)
       IN  IF reg.ok THEN LOOPS' = reg.L /\ heap' = reg.H
           ELSE UNCHANGED <<LOOPS, heap>>
    /\ UNCHANGED <<clock, pats, inflight, server, file, last_mtime,
                   user_mod, sys_modules, pc, stack, self, it, itlen, defs,
                   snap, result, halted, starts, made, calls, raised,
                   errlog, load_errors, leaked, bpm_arg, started>>

(* --------------------------- specifications ---------------------------- *)

\* the statements of load_user_code and of what it calls, run by thread t
Reload(t) ==
    \/ LoadCheck(t)
    \/ StopAllNext(t) \/ StopClear(t) \/ StopRelease(t)
    \/ \E body \in Bodies, fails \in BOOLEAN : Import(t, body, fails)
    \/ Imported(t)
    \/ StartAllNext(t) \/ StartEnter(t) \/ StartPlay(t)
    \/ Loaded(t) \/ Except(t)

\* the main thread from the interrupt to the end of the process
Shutdown ==
    \/ Interrupt
    \/ StopAllNext("main") \/ StopClear("main") \/ StopRelease("main")
    \/ ServerShutdown

\* the audio server's dispatch context
Audio ==
    \/ \E h \in DOMAIN pats : Fire(h)
    \/ \E r \in DOMAIN heap : Tick(r)

\* the user at the file system
User == EditFile \/ RemoveFile

\* engine.py
Next == Reload("watch") \/ Shutdown \/ Audio \/ User

Spec == Init /\ [][Next]_vars

\* engine.py for as long as no interrupt is received
NextLive == Reload("watch") \/ Audio \/ User

\* watch_thread is a thread of its own that loops for ever: whenever it has
\* a step to take, it eventually takes it
SpecLive == Init /\ [][NextLive]_vars /\ WF_vars(Reload("watch"))

\* a sequential caller of load_user_code(), start() and stop(), with
\* Patterns that are created and cancelled but never fire
NextApi ==
    \/ ApiLoad
    \/ \E r \in Values : ApiStart(r) \/ ApiStop(r)
    \/ Reload("api")
    \/ User

SpecApi == InitApi /\ [][NextApi]_vars

\* the sequential caller with user_code.py in place
InitDef == InitApi /\ file.exists

\* a sequential caller of live_loop(), clock.set_bpm(), start() and stop()
NextDef ==
    \/ \E b \in BpmArgs : ApiSetBpm(b)
    \/ SetBpmWrite("api") \/ SetBpmDerive("api")
    \/ \E d \in DefInputs : ApiDefine(d)
    \/ \E r \in Values : ApiStart(r) \/ ApiStop(r)
    \/ StartEnter("api") \/ StartPlay("api")
    \/ StopClear("api") \/ StopRelease("api")

SpecDef == InitDef /\ [][NextDef]_vars

(* ------------------------------- claims -------------------------------- *)

\* Idle: not running and no trigger handle
Idle(r) == ~heap[r].is_running /\ heap[r].pat = None

\* Running with a trigger handle, the handle's Pattern playing
Running(r) ==
    /\ heap[r].is_running
    /\ heap[r].pat # None
    /\ pats[heap[r].pat].playing

\* C1: once stop() on a loop has returned, no invocation of the loop's user
\* callback is executed until the loop is started again (stated for the
\* executions in which no cancellation of a trigger has raised, where every
\* trigger a stop() found was cancelled).
C1_NoCallbackAfterStop ==
    [][\A n \in Names :
          (leaked = {} /\ calls'[n] > calls[n]) => n \notin halted]_vars

\* C2: the LiveLoop objects ever constructed are exactly the registered ones,
\* one per name, each still registered under the name it was constructed
\* for (a registration of an existing name replaces no object and constructs
\* none); and when the import of a reload has executed a definition set,
\* every name of the set maps to a loop carrying its definition's period
\* and callback.
C2_SameLoopNewDefinition ==
    /\ Len(heap) = Len(LOOPS)
    /\ \A i \in DOMAIN LOOPS :
          LOOPS[i].ref = i /\ heap[i].name = LOOPS[i].name
    /\ \A t \in Threads : pc[t] = "imported" =>
          \A n \in Names : defs[t][n] # NoDef =>
             /\ n \in Keys
             /\ heap[Get(n)].period_beats = every(defs[t][n].spec).val
             /\ heap[Get(n)].func = defs[t][n].fn

\* C2 witness: the second reload has executed a set that redefines A (which
\* ran under its first definition) and registers B for the first time
C2_Witness ==
    /\ pc["watch"] = "imported"
    /\ load_errors = 0
    /\ defs["watch"]["A"] # NoDef /\ made["A"] = 1
    /\ defs["watch"]["B"] # NoDef /\ made["B"] = 0
    /\ heap[Get("A")].func = "cbBad"

\* C3: when a reload whose load succeeded has run start_all, every loop of
\* the registry is Running with a trigger handle.
C3_AllRunningAfterReload ==
    \A t \in Threads : pc[t] = "loaded" => \A r \in Values : Running(r)

\* C3 witness: a reload completes that found one loop Running and one Idle
C3_Witness ==
    /\ pc["api"] = "loaded"
    /\ snap["api"].runs = {TRUE, FALSE}
    /\ Len(LOOPS) = 2

\* C4: a tick in which the callback raises logs the failure once under the
\* loop's name and changes nothing else: no loop's is_running or handle, no
\* Pattern, no other loop's log, nothing of the reloader or the server; a
\* tick in which it returns logs nothing.
C4_TickFailureIsolated ==
    [][\A n \in Names : calls'[n] # calls[n] =>
          /\ errlog'[n] - errlog[n] = raised'[n] - raised[n]
          /\ \A m \in Names \ {n} : errlog'[m] = errlog[m]
          /\ heap' = heap /\ pats' = pats /\ LOOPS' = LOOPS
          /\ pc' = pc /\ stack' = stack /\ server' = server
          /\ result' = result /\ load_errors' = load_errors]_vars

\* C4 witness: a loop whose callback raised in two ticks, two failures
\* logged, still Running
C4_Witness ==
    \E n \in Keys :
       /\ raised[n] = 2 /\ errlog[n] = 2
       /\ Running(Get(n))

\* C5: once the main thread has stopped every loop and released the audio
\* server, no loop is Running and no loop holds a trigger.
C5_NothingRunsAfterShutdown ==
    pc["main"] = "exited" => \A r \in Values : Idle(r)

\* C6: for every loop on which no start() or stop() is in progress, the
\* trigger handle is set if and only if is_running is true.
C6_HandleIffRunning ==
    \A r \in DOMAIN heap :
       (\A t \in Threads : self[t] # r) =>
          ((heap[r].pat # None) <=> heap[r].is_running)

\* C7: when the load of a reload has failed, and from then until the next
\* reload is attempted, every loop of the registry is Idle with no trigger
\* handle, and the error was logged.
C7_FailedLoadLeavesIdle ==
    /\ (\E t \in Threads : pc[t] = "except" /\ snap[t].on) =>
          \A r \in Values : Idle(r)
    /\ result = "failed" =>
          /\ \A r \in Values : Idle(r)
          /\ load_errors > 0

\* C7 witness: the second reload failed after the first had started a loop
C7_Witness ==
    /\ result = "failed"
    /\ pc["watch"] = "load"
    /\ \E n \in Keys : made[n] = 1

\* C8: a reload whose load fails leaves the registered names and every
\* registered loop's period and callback as they were.
C8_FailedLoadKeepsRegistry ==
    [][\A t \in Threads : (pc[t] = "import" /\ pc'[t] = "except") =>
          /\ LOOPS' = LOOPS
          /\ Len(heap') = Len(heap)
          /\ \A r \in DOMAIN heap :
                /\ heap'[r].period_beats = heap[r].period_beats
                /\ heap'[r].func = heap[r].func]_vars

\* C9: for every loop the number of Patterns its start() constructed equals
\* the number of its Idle -> Running transitions (less the one whose
\* Pattern the start() in progress is about to construct).
C9_OneTriggerPerTransition ==
    \A r \in DOMAIN heap :
       made[heap[r].name]
          + Cardinality({t \in Threads : pc[t] = "start_play" /\ self[t] = r})
          = starts[heap[r].name]

\* C9 witness: start() is called on a loop that is Running
C9_Witness ==
    /\ pc["api"] = "start"
    /\ Running(self["api"])
    /\ made[heap[self["api"]].name] = 2

\* C10: from the return of stop() until start() is called, the loop is Idle
\* with its handle cleared, and no Pattern of the loop plays except one
\* whose cancellation raised; this holds through any further stop().
C10_StopLeavesIdle ==
    \A r \in DOMAIN heap : heap[r].name \in halted =>
       /\ Idle(r)
       /\ \A h \in DOMAIN pats :
             (pats[h].owner = r /\ pats[h].playing) => h \in leaked

\* C10 witness: a second stop() runs on a loop that a stop() left Idle
\* after the cancellation of its trigger raised
C10_Witness ==
    /\ pc["api"] = "stop_if"
    /\ heap[self["api"]].name \in halted
    /\ \E h \in leaked : pats[h].owner = self["api"]


\* C11: a set_bpm call whose argument is zero or negative writes nothing:
\* no step of the call changes the Clock's bpm or sec_per_beat.
C11_InvalidTempoWritesNothing ==
    [][\A t \in Threads :
          (pc[t] \in {"set_bpm", "set_bpm_div"} /\ bpm_arg <= 0)
             => clock' = clock]_vars

\* C12: whenever no set_bpm call is in progress, bpm is positive and
\* sec_per_beat equals 60 / bpm.
C12_ClockConsistent ==
    (\A t \in Threads : pc[t] \notin {"set_bpm", "set_bpm_div"}) =>
       /\ clock.bpm > 0
       /\ clock.sec_per_beat = Rat(60, clock.bpm)

\* C13: the period of the Pattern a loop holds is the product of the
\* period_beats and the sec_per_beat read by the start() that built it,
\* whatever set_bpm calls have been made since; for a loop not redefined
\* since that start() it is period_beats times that sec_per_beat.
C13_TempoSnapshotAtStart ==
    \A r \in DOMAIN heap : heap[r].pat # None =>
       LET n == heap[r].name
           p == pats[heap[r].pat]
       IN  /\ started[n] # NoStart
           /\ p.owner = r
           /\ p.time = RMul(started[n].beats, started[n].spb)
           /\ heap[r].period_beats = started[n].beats =>
                 p.time = RMul(heap[r].period_beats, started[n].spb)

\* C13 witness: a loop stopped and started again after a tempo change, its
\* Pattern built with the tempo of the second start(), Running after a
\* further tempo change
C13_Witness ==
    \E n \in Keys :
       /\ Running(Get(n))
       /\ made[n] = 2
       /\ started[n].spb = <<1, 1>>
       /\ clock.sec_per_beat = <<-1, 1>>
       /\ pats[heap[Get(n)].pat].time = heap[Get(n)].period_beats

\* C14: every registered loop has a positive period: live_loop registers
\* nothing for a period specification whose value is zero or negative.
C14_PeriodsPositive ==
    \A r \in DOMAIN heap : heap[r].period_beats[1] > 0

\* C18: a step changes is_running or the trigger handle of a loop only if
\* it is a step of a start() or stop() call on that loop (so no live_loop
\* call changes either), and a loop is constructed Idle with no handle.
C18_DefinitionKeepsRunningState ==
    [][\A r \in DOMAIN heap' :
          IF r \in DOMAIN heap
          THEN (heap'[r].is_running # heap[r].is_running
                   \/ heap'[r].pat # heap[r].pat)
                  => \E t \in Threads :
                        /\ self[t] = r
                        /\ pc[t] \in {"start", "start_play", "stop", "stop_if"}
          ELSE ~heap'[r].is_running /\ heap'[r].pat = None]_vars

\* C18 witness: a loop redefined while Running (its period is no longer the
\* one its Pattern was built from) and still Running, a second loop
\* registered since
C18_Witness ==
    /\ Len(LOOPS) = 2
    /\ \E n \in Keys :
          /\ Running(Get(n))
          /\ started[n].beats # heap[Get(n)].period_beats

\* C15: no step removes a name from the registry or registers another
\* object under it; an import leaves the period and the callback of every
\* registered loop its module body did not define as they were; and when
\* the start-all step of a reload has run, every registered loop is Running.
C15_NoDeletion ==
    [][/\ \A n \in Keys :
             n \in KeysOf(LOOPS') /\ GetIn(LOOPS', n) = Get(n)
       /\ \A t \in Threads :
             (pc[t] = "import" /\ pc'[t] \in {"imported", "except"}) =>
                \A n \in Keys : defs'[t][n] = NoDef =>
                   /\ heap'[Get(n)].period_beats = heap[Get(n)].period_beats
                   /\ heap'[Get(n)].func = heap[Get(n)].func
       /\ \A t \in Threads :
             pc[t] = "loaded" => \A r \in Values : Running(r)]_vars

\* C15 witness: the import of a reload has executed a module body that
\* defines one loop and not the other, registered and started before
C15_Witness ==
    /\ pc["api"] = "imported"
    /\ Len(LOOPS) = 2
    /\ \E n \in Keys, m \in Keys :
          /\ defs["api"][n] = NoDef /\ made[n] >= 1
          /\ defs["api"][m] # NoDef

C17_NoTickInsideReload ==
    [][\A n \in Keys :
          (calls'[n] > calls[n] /\ leaked = {} /\ pc["main"] = "wait") =>
             ~(snap["watch"].on /\ made[n] > 0 /\ heap[Get(n)].pat = None)]_vars

\* the names of a registry in insertion order
NamesOf(L) == [i \in 1..Len(L) |-> L[i].name]

\* the names of a module body that are not in `known`, in order of first
\* appearance
RECURSIVE NewNames(_, _)
NewNames(body, known) ==
    IF body = <<>> THEN <<>>
    ELSE IF Head(body).name \in known THEN NewNames(Tail(body), known)
    ELSE <<Head(body).name>>
            \o NewNames(Tail(body), known \cup {Head(body).name})

\* C19: whatever module body an import executes, the registry order after
\* it is the order before it followed by the body's new names in order of
\* first appearance; and the start-all step of a reload starts the loops in
\* registry order: the loops before the iterator's position are Running,
\* the loops from it on are Idle, the loop being started is the one at the
\* position just passed.
C19_StartOrder ==
    \A t \in Threads :
       /\ pc[t] = "import" =>
             \A body \in Bodies :
                NamesOf(ExecBody([L |-> LOOPS, H |-> heap, ok |-> TRUE,
                                  seen |-> NoDefs], body).L)
                   = NamesOf(LOOPS) \o NewNames(body, Keys)
       /\ (pc[t] = "start_all" /\ snap[t].on) =>
             \A i \in DOMAIN LOOPS :
                IF i < it[t] THEN Running(LOOPS[i].ref)
                ELSE Idle(LOOPS[i].ref)
       /\ (pc[t] \in {"start", "start_play"} /\ snap[t].on) =>
             /\ self[t] = LOOPS[it[t] - 1].ref
             /\ \A i \in DOMAIN LOOPS :
                   /\ i < it[t] - 1 => Running(LOOPS[i].ref)
                   /\ i >= it[t] => Idle(LOOPS[i].ref)

\* C19 witness: the second reload's start-all has started B, registered
\* first, and not yet A, registered second
C19_Witness ==
    /\ pc["api"] = "start_all"
    /\ snap["api"].on
    /\ last_mtime = 2
    /\ NamesOf(LOOPS) = <<"B", "A">>
    /\ it["api"] = 2
    /\ made["B"] = 2

\* C20: each loop has at most one Pattern that was created for it and is
\* still playing.
C20_OneLiveTrigger ==
    \A r \in DOMAIN heap :
       Cardinality({h \in DOMAIN pats :
                       pats[h].owner = r /\ pats[h].playing}) <= 1

\* C21: for as long as no interrupt is received and the watcher is
\* scheduled: a file that exists with a marker m newer than the recorded
\* one leads to a recorded marker of at least m, unless the file is removed
\* first; a reload that has begun leads to the import being attempted, and
\* an attempted import to an outcome of the reload, loaded or failed;
\* and an import that has executed a definition leads to the loop of that
\* name, and every other registered loop, being Running, that loop with
\* that definition's period and callback.
C21_ChangeDetectionLive ==
    /\ \A m \in 1..MaxMtime :
          (file.exists /\ file.mtime = m /\ last_mtime < m)
             ~> (last_mtime >= m \/ ~file.exists)
    /\ (pc["watch"] \in {"stop_all", "stop", "stop_if"})
          ~> (pc["watch"] = "import")
    /\ (pc["watch"] = "import") ~> (result \in {"loaded", "failed"})
    /\ \A d \in Defs :
          (pc["watch"] = "imported" /\ defs["watch"][d.name] = d)
             ~> /\ result = "loaded"
                /\ \A r \in Values : Running(r)
                /\ d.name \in Keys
                /\ Running(Get(d.name))
                /\ heap[Get(d.name)].period_beats = every(d.spec).val
                /\ heap[Get(d.name)].func = d.fn

\* C21 witness: the second marker was recorded and its reload left two
\* loops Running
C21_Witness ==
    /\ last_mtime = 2
    /\ result = "loaded"
    /\ Len(LOOPS) = 2
    /\ \A r \in Values : Running(r)

\* C22: _last_mtime never decreases; a reload begins only in a poll that
\* finds a marker strictly newer than the recorded one (or none recorded)
\* and records it in that step, before stop_all and the import; and a poll
\* that finds the marker recorded already returns without changing a loop,
\* a Pattern, the registry or the error log, after a failed load as after
\* a successful one.
C22_OneAttemptPerMarker ==
    [][/\ last_mtime' >= last_mtime
       /\ \A t \in Threads :
             /\ (pc[t] = "load" /\ pc'[t] = "stop_all") =>
                   /\ file.exists
                   /\ file.mtime > last_mtime
                   /\ last_mtime' = file.mtime
             /\ pc'[t] \in {"stop_all", "stop", "stop_if", "import"} /\ snap'[t].on
                   => last_mtime' # None
             /\ (pc[t] = "load" /\ pc'[t] # "load" /\ file.exists
                    /\ file.mtime <= last_mtime) =>
                   /\ pc'[t] = Home(t)
                   /\ last_mtime' = last_mtime
                   /\ LOOPS' = LOOPS /\ heap' = heap /\ pats' = pats
                   /\ load_errors' = load_errors /\ result' = result]_vars

\* C22 witness: a poll begins after a failed load, the file unchanged
C22_Witness ==
    /\ pc["api"] = "load"
    /\ result = "failed"
    /\ file.exists
    /\ file.mtime = last_mtime
    /\ Len(LOOPS) > 0

====
